---- MODULE Spec2Model ----
(***************************************************************************)
(* The linter-eslint worker (src/worker.js): the message handler that      *)
(* resolves a lint engine, decides whether to skip, runs a lint / fix /    *)
(* debug job and emits one response, together with the process-wide rule   *)
(* metadata snapshot (rulesMetadata, sendRules).                           *)
(*                                                                         *)
(* The helpers of src/worker-helpers.js are not part of the sources at     *)
(* hand (only their tests are); they are modelled from the specification   *)
(* (sections 4.1 to 4.4) and are marked so in the model map.               *)
(***************************************************************************)
EXTENDS Integers, Sequences, FiniteSets, TLC

(***************************************************************************)
(* Bounds of the model.                                                    *)
(***************************************************************************)
\* rule identifiers are 1..NumRules
NumRules == 1
\* a report holds at most MaxResults result entries
MaxResults == 2
\* a result entry holds at most MaxMessages messages
MaxMessages == 1

(***************************************************************************)
(* Paths.  A path is a sequence of segments; an absolute path starts with  *)
(* the root segment.  The empty sequence stands for the empty string and   *)
(* for null / undefined (all three are falsy where the code tests them).   *)
(***************************************************************************)
Root == "/"

Null == <<>>

IsAbsolute(p) == Len(p) > 0 /\ p[1] = Root

\* Path.join: concatenation of the segments
Join(a, b) == a \o (IF IsAbsolute(b) /\ Len(a) > 0 THEN Tail(b) ELSE b)

\* Path.dirname: "." for a path without a directory part
Dirname(p) ==
    IF Len(p) = 0 THEN <<".">>
    ELSE IF Len(p) = 1 THEN (IF IsAbsolute(p) THEN p ELSE <<".">>)
    ELSE SubSeq(p, 1, Len(p) - 1)

\* Path.basename: the last segment
Basename(p) == IF Len(p) = 0 THEN Null ELSE <<p[Len(p)]>>

\* a is p itself or one of its ancestors
IsAncestor(a, p) == Len(a) <= Len(p) /\ SubSeq(p, 1, Len(a)) = a

\* the number of leading segments two paths share
RECURSIVE CommonLen(_, _)
CommonLen(a, b) ==
    IF Len(a) = 0 \/ Len(b) = 0 \/ Head(a) # Head(b) THEN 0
    ELSE 1 + CommonLen(Tail(a), Tail(b))

\* Path.relative(from, to): one ".." for every segment of `from` that is not
\* shared with `to`, then the segments of `to` that are not shared
Relative(from, to) ==
    LET n == CommonLen(from, to)
    IN  [ i \in 1 .. (Len(from) - n) |-> ".." ] \o SubSeq(to, n + 1, Len(to))

(***************************************************************************)
(* The file system the worker runs on (fixed, in the manner of the test    *)
(* fixtures): a project below the home directory with a local engine, a    *)
(* project configuration and an indirect engine under tools/; a home-root  *)
(* configuration; a global prefix in each platform layout; the bundled     *)
(* engine of the worker's own installation.                                *)
(***************************************************************************)
HomeDir == <<Root, "home", "u">>

ProjectDir == <<Root, "home", "u", "proj">>

BundledEslint == <<Root, "pkg", "node_modules", "eslint">>

\* the global prefix, as configured on win32 and elsewhere (one directory on disk)
GlobalPrefixWin == <<Root, "usr", "lib">>

GlobalPrefix == <<Root, "usr">>

EmptyPrefix == <<Root, "empty">>

AdvancedAbs == <<Root, "home", "u", "proj", "tools", "node_modules">>

AdvancedRel == <<"tools", "node_modules">>

AdvancedMissing == <<Root, "missing", "node_modules">>

EslintName == <<"node_modules", "eslint">>

ConfigName == <<".eslintrc">>

IgnoreName == <<".eslintignore">>

Disk ==
    { Join(ProjectDir, EslintName),
      Join(ProjectDir, ConfigName),
      Join(AdvancedAbs, <<"eslint">>),
      Join(ProjectDir, IgnoreName),
      Join(HomeDir, ConfigName),
      Join(GlobalPrefix, <<"lib", "node_modules", "eslint">>),
      BundledEslint }

FilePaths ==
    { <<Root, "home", "u", "proj", "src", "a.js">>,
      <<Root, "home", "u", "notes", "b.js">>,
      <<Root, "tmp", "c.js">> }

ProjectPaths == { Null, ProjectDir }

\* the project that owns a file, null for a file outside every project
ProjectPathOf(filePath) ==
    IF IsAncestor(ProjectDir, filePath) THEN ProjectDir ELSE Null

\* atom-linter find: the nearest ancestor of dir (dir included) holding name
RECURSIVE Find(_, _)
Find(dir, name) ==
    IF Join(dir, name) \in Disk THEN Join(dir, name)
    ELSE IF Len(dir) <= 1 THEN Null
    ELSE Find(Dirname(dir), name)

\* atom-linter findCached: the same search through FindCache; on a file system
\* that does not change, a cached answer is the answer of a fresh search
findCached(dir, name) == Find(dir, name)

(***************************************************************************)
(* State.                                                                  *)
(***************************************************************************)
VARIABLES
    rulesMetadata,  \* the rule metadata snapshot: rule id -> metadata
    sendRules,      \* the flag lintJob leaves for the lint branch
    platform,       \* process.platform
    phase,          \* "idle", "pending" (a message is in flight to the worker),
                    \* "done" (the handler has run on it)
    inbox,          \* the job message being served
    emitted,        \* the <<emitKey, response>> pairs the handler emitted for it
    calls,          \* the collaborator calls the handler made for it, in order
    thrown,         \* the error that left the handler, or "none"
    run,            \* what the engine was run on and what it showed
    lastRules,      \* the rule set of the latest job that completed its engine run
    delivered,      \* the rule set the host last received through updatedRules
    probe           \* a helper applied on its own: its arguments and result

vars ==
    << rulesMetadata, sendRules, platform, phase, inbox, emitted,
       calls, thrown, run, lastRules, delivered, probe >>

Platforms == { "win32", "linux" }

(***************************************************************************)
(* EngineLocator (specification 4.1).  A resolution is a descriptor        *)
(* [path, type]; the type "EngineNotFoundError" stands for the error       *)
(* thrown.                                                                 *)
(***************************************************************************)
NotFound == [ path |-> Null, type |-> "EngineNotFoundError" ]

IsError(d) == d.type = "EngineNotFoundError"

DescriptorTypes == { "bundled fallback", "global", "local project", "advanced specified" }

\* the directory an advancedLocalNodeModules setting names
ResolveAdvanced(config, projectPath) ==
    IF IsAbsolute(config.advancedLocalNodeModules)
    THEN config.advancedLocalNodeModules
    ELSE Join(projectPath, config.advancedLocalNodeModules)

\* the engine directory below a global prefix, by platform
GlobalEslintDir(config) ==
    IF platform = "win32"
    THEN Join(config.globalNodePath, <<"node_modules", "eslint">>)
    ELSE Join(config.globalNodePath, <<"lib", "node_modules", "eslint">>)

\* (variant) the global policy is looked at before the advanced path
findESLintDirectoryGlobalFirst(modulesDir, config, projectPath) ==
    IF config.useGlobalEslint
    THEN LET dir == GlobalEslintDir(config)
         IN  IF dir \in Disk THEN [ path |-> dir, type |-> "global" ]
             ELSE NotFound
    ELSE IF config.advancedLocalNodeModules # Null
    THEN LET dir == Join(ResolveAdvanced(config, projectPath), <<"eslint">>)
         IN  IF dir \in Disk THEN [ path |-> dir, type |-> "advanced specified" ]
             ELSE NotFound
    ELSE IF Join(modulesDir, <<"eslint">>) \in Disk
    THEN [ path |-> Join(modulesDir, <<"eslint">>), type |-> "local project" ]
    ELSE [ path |-> BundledEslint, type |-> "bundled fallback" ]

\* (variant) a local project engine is preferred to the global one
findESLintDirectoryLocalFirst(modulesDir, config, projectPath) ==
    IF config.advancedLocalNodeModules # Null
    THEN LET dir == Join(ResolveAdvanced(config, projectPath), <<"eslint">>)
         IN  IF dir \in Disk THEN [ path |-> dir, type |-> "advanced specified" ]
             ELSE NotFound
    ELSE IF Join(modulesDir, <<"eslint">>) \in Disk
    THEN [ path |-> Join(modulesDir, <<"eslint">>), type |-> "local project" ]
    ELSE IF config.useGlobalEslint
    THEN LET dir == GlobalEslintDir(config)
         IN  IF dir \in Disk THEN [ path |-> dir, type |-> "global" ]
             ELSE NotFound
    ELSE [ path |-> BundledEslint, type |-> "bundled fallback" ]

\* (variant) without a local engine the resolution fails
findESLintDirectoryNoFallback(modulesDir, config, projectPath) ==
    IF config.advancedLocalNodeModules # Null
    THEN LET dir == Join(ResolveAdvanced(config, projectPath), <<"eslint">>)
         IN  IF dir \in Disk THEN [ path |-> dir, type |-> "advanced specified" ]
             ELSE NotFound
    ELSE IF config.useGlobalEslint
    THEN LET dir == GlobalEslintDir(config)
         IN  IF dir \in Disk THEN [ path |-> dir, type |-> "global" ]
             ELSE NotFound
    ELSE IF Join(modulesDir, <<"eslint">>) \in Disk
    THEN [ path |-> Join(modulesDir, <<"eslint">>), type |-> "local project" ]
    ELSE NotFound

\* (variant) a missing advanced or global engine falls through to the local
\* project engine and to the bundled one
findESLintDirectoryFallThrough(modulesDir, config, projectPath) ==
    LET advanced == Join(ResolveAdvanced(config, projectPath), <<"eslint">>)
        global == GlobalEslintDir(config)
    IN  IF config.advancedLocalNodeModules # Null /\ advanced \in Disk
        THEN [ path |-> advanced, type |-> "advanced specified" ]
        ELSE IF config.advancedLocalNodeModules = Null /\ config.useGlobalEslint
                /\ global \in Disk
        THEN [ path |-> global, type |-> "global" ]
        ELSE IF Join(modulesDir, <<"eslint">>) \in Disk
        THEN [ path |-> Join(modulesDir, <<"eslint">>), type |-> "local project" ]
        ELSE [ path |-> BundledEslint, type |-> "bundled fallback" ]

findESLintDirectory(modulesDir, config, projectPath) ==
    IF config.advancedLocalNodeModules # Null
    THEN LET dir == Join(ResolveAdvanced(config, projectPath), <<"eslint">>)
         IN  IF dir \in Disk THEN [ path |-> dir, type |-> "advanced specified" ]
             ELSE NotFound
    ELSE IF config.useGlobalEslint
    THEN LET dir == GlobalEslintDir(config)
         IN  IF dir \in Disk THEN [ path |-> dir, type |-> "global" ]
             ELSE NotFound
    ELSE IF Join(modulesDir, <<"eslint">>) \in Disk
    THEN [ path |-> Join(modulesDir, <<"eslint">>), type |-> "local project" ]
    ELSE [ path |-> BundledEslint, type |-> "bundled fallback" ]

\* the nearest node_modules directory holding an engine, "." when there is none
ModulesDir(fileDir) == Dirname(findCached(fileDir, EslintName))

\* the engine handle for a file's directory, or the error
getESLintInstance(fileDir, config, projectPath) ==
    findESLintDirectory(ModulesDir(fileDir), config, projectPath)

(***************************************************************************)
(* ConfigResolver (specification 4.2).                                     *)
(***************************************************************************)
getConfigPath(fileDir) == Find(fileDir, ConfigName)

isConfigAtHomeRoot(configPath) == Dirname(configPath) = HomeDir

(***************************************************************************)
(* PathNormalizer (specification 4.3).                                     *)
(***************************************************************************)
\* (variant) the project path is preferred to the ignore file's directory
getRelativePathProjectFirst(fileDir, filePath, config, projectPath) ==
    LET ignoreFile == IF config.disableEslintIgnore THEN Null
                      ELSE Find(fileDir, IgnoreName)
    IN  IF projectPath # Null /\ IsAncestor(projectPath, filePath)
        THEN Relative(projectPath, filePath)
        ELSE IF ignoreFile # Null
        THEN Relative(Dirname(ignoreFile), filePath)
        ELSE Basename(filePath)

\* (variant) any project path is taken as the anchor, an ancestor or not
getRelativePathAnyProject(fileDir, filePath, config, projectPath) ==
    LET ignoreFile == IF config.disableEslintIgnore THEN Null
                      ELSE Find(fileDir, IgnoreName)
    IN  IF ignoreFile # Null
        THEN Relative(Dirname(ignoreFile), filePath)
        ELSE IF projectPath # Null
        THEN Relative(projectPath, filePath)
        ELSE Basename(filePath)

getRelativePath(fileDir, filePath, config, projectPath) ==
    LET ignoreFile == IF config.disableEslintIgnore THEN Null
                      ELSE Find(fileDir, IgnoreName)
    IN  IF ignoreFile # Null
        THEN Relative(Dirname(ignoreFile), filePath)
        ELSE IF projectPath # Null /\ IsAncestor(projectPath, filePath)
        THEN Relative(projectPath, filePath)
        ELSE Basename(filePath)

\* the options the engine is constructed with (specification 4.6)
getCLIEngineOptions(type, config, rules, relativeFilePath, fileDir, configPath) ==
    [ rules |-> rules, file |-> relativeFilePath, fix |-> type = "fix",
      ignore |-> ~config.disableEslintIgnore, cwd |-> fileDir,
      configFile |-> configPath ]

(***************************************************************************)
(* RuleRegistry (specification 4.4).  A rule set is a function from a set  *)
(* of rule ids to metadata.                                                *)
(***************************************************************************)
RuleIds == 1 .. NumRules

\* the metadata a rule can carry: two values tell a changed value from an
\* unchanged one
Metas == { "meta A", "meta B" }

RuleSets == UNION { [ids -> Metas] : ids \in SUBSET RuleIds }

EmptyRules == [r \in {} |-> 0]

\* true when a rule was added, removed, or has other metadata
didRulesChange(currentRules, newRules) ==
    \/ DOMAIN currentRules # DOMAIN newRules
    \/ \E r \in DOMAIN newRules : currentRules[r] # newRules[r]

\* the snapshot as the array of [rule, props] pairs the lint branch sends back
RECURSIVE MapEntries(_, _)
MapEntries(rules, from) ==
    IF from > NumRules THEN <<>>
    ELSE (IF from \in DOMAIN rules THEN << <<from, rules[from]>> >> ELSE <<>>)
         \o MapEntries(rules, from + 1)

(***************************************************************************)
(* The lint engine (a collaborator): what one run of it does.  fault names *)
(* the call that throws, if any; report is what executeOnText returns;     *)
(* rules is what getRules finds on the engine.                             *)
(***************************************************************************)
Diagnostics == { "no-undef" }

MessageLists == UNION { [1 .. n -> Diagnostics] : n \in 0 .. MaxMessages }

ResultEntries == { [ messages |-> m ] : m \in MessageLists }

Reports == UNION { [1 .. n -> ResultEntries] : n \in 0 .. MaxResults }

Faults == { "none", "executeOnText", "outputFixes" }

EngineRuns ==
    { [ fault |-> "none", results |-> r, rules |-> s ] : r \in Reports, s \in RuleSets }
    \cup { [ fault |-> "outputFixes", results |-> r, rules |-> s ] :
             r \in Reports, s \in RuleSets }
    \cup { [ fault |-> "executeOnText", results |-> <<>>, rules |-> EmptyRules ] }

\* Helpers.getRules: the rules of the engine instance
getRules(engine) == engine.rules

(***************************************************************************)
(* lintJob and fixJob (src/worker.js).  Each yields the report or status,  *)
(* the snapshot and flag it leaves, the calls it made and the error it     *)
(* threw ("none" when it returned).                                        *)
(***************************************************************************)
\* (variant) the snapshot is not cleared before the rules are set
lintJobNoClear(rm, sr, engine) ==
    IF engine.fault = "executeOnText"
    THEN [ thrown |-> "EngineExecutionError", results |-> <<>>,
           rulesMetadata |-> rm, sendRules |-> sr,
           calls |-> <<"new CLIEngine", "executeOnText">> ]
    ELSE LET rules == getRules(engine)
             changed == didRulesChange(rm, rules)
         IN  [ thrown |-> "none", results |-> engine.results,
               rulesMetadata |->
                   IF changed
                   THEN [ r \in DOMAIN rm \cup DOMAIN rules |->
                            IF r \in DOMAIN rules THEN rules[r] ELSE rm[r] ]
                   ELSE rm,
               sendRules |-> changed,
               calls |-> <<"new CLIEngine", "executeOnText", "getRules",
                           "didRulesChange">>
                         \o (IF changed
                             THEN <<"rulesMetadata.clear", "rulesMetadata.set">>
                             ELSE <<>>) ]

\* (variant) the flag is only ever raised, never lowered
lintJobStickyFlag(rm, sr, engine) ==
    IF engine.fault = "executeOnText"
    THEN [ thrown |-> "EngineExecutionError", results |-> <<>>,
           rulesMetadata |-> rm, sendRules |-> sr,
           calls |-> <<"new CLIEngine", "executeOnText">> ]
    ELSE LET rules == getRules(engine)
             changed == didRulesChange(rm, rules)
         IN  [ thrown |-> "none", results |-> engine.results,
               rulesMetadata |-> IF changed THEN rules ELSE rm,
               sendRules |-> sr \/ changed,
               calls |-> <<"new CLIEngine", "executeOnText", "getRules",
                           "didRulesChange">>
                         \o (IF changed
                             THEN <<"rulesMetadata.clear", "rulesMetadata.set">>
                             ELSE <<>>) ]

lintJob(rm, sr, engine) ==
    IF engine.fault = "executeOnText"
    THEN [ thrown |-> "EngineExecutionError", results |-> <<>>,
           rulesMetadata |-> rm, sendRules |-> sr,
           calls |-> <<"new CLIEngine", "executeOnText">> ]
    ELSE LET rules == getRules(engine)
             changed == didRulesChange(rm, rules)
         IN  [ thrown |-> "none", results |-> engine.results,
               rulesMetadata |-> IF changed THEN rules ELSE rm,
               sendRules |-> changed,
               calls |-> <<"new CLIEngine", "executeOnText", "getRules",
                           "didRulesChange">>
                         \o (IF changed
                             THEN <<"rulesMetadata.clear", "rulesMetadata.set">>
                             ELSE <<>>) ]

FixComplete == "Linter-ESLint: Fix complete."

FixRemain == "Linter-ESLint: Fix attempt complete, but linting errors remain."

\* (variant) the messages of every result entry count
fixStatusAnyEntry(results) ==
    IF \A i \in 1 .. Len(results) : Len(results[i].messages) = 0
    THEN FixComplete
    ELSE FixRemain

\* the status fixJob returns for a report
fixStatus(results) ==
    IF Len(results) = 0 \/ Len(results[1].messages) = 0
    THEN FixComplete
    ELSE FixRemain

\* (variant) a failure of outputFixes is swallowed
fixJobSwallow(rm, sr, engine) ==
    LET job == lintJob(rm, sr, engine)
        base == [ thrown |-> job.thrown, status |-> "",
                  rulesMetadata |-> job.rulesMetadata, sendRules |-> job.sendRules,
                  calls |-> job.calls, fixes |-> <<>> ]
    IN  IF job.thrown # "none" THEN base
        ELSE [ base EXCEPT !.status = fixStatus(job.results),
                           !.calls = Append(job.calls, "outputFixes"),
                           !.fixes = << job.results >> ]

\* (variant) the fixes are written out a second time
fixJobWritesTwice(rm, sr, engine) ==
    LET job == lintJob(rm, sr, engine)
        base == [ thrown |-> job.thrown, status |-> "",
                  rulesMetadata |-> job.rulesMetadata, sendRules |-> job.sendRules,
                  calls |-> job.calls, fixes |-> <<>> ]
    IN  IF job.thrown # "none" THEN base
        ELSE IF engine.fault = "outputFixes"
        THEN [ base EXCEPT !.thrown = "EngineExecutionError",
                           !.calls = Append(job.calls, "outputFixes"),
                           !.fixes = << job.results >> ]
        ELSE [ base EXCEPT !.status = fixStatus(job.results),
                           !.calls = job.calls \o <<"outputFixes", "outputFixes">>,
                           !.fixes = << job.results, job.results >> ]

fixJob(rm, sr, engine) ==
    LET job == lintJob(rm, sr, engine)
        base == [ thrown |-> job.thrown, status |-> "",
                  rulesMetadata |-> job.rulesMetadata, sendRules |-> job.sendRules,
                  calls |-> job.calls, fixes |-> <<>> ]
    IN  IF job.thrown # "none" THEN base
        ELSE IF engine.fault = "outputFixes"
        THEN [ base EXCEPT !.thrown = "EngineExecutionError",
                           !.calls = Append(job.calls, "outputFixes"),
                           !.fixes = << job.results >> ]
        ELSE [ base EXCEPT !.status = fixStatus(job.results),
                           !.calls = Append(job.calls, "outputFixes"),
                           !.fixes = << job.results >> ]

(***************************************************************************)
(* Responses.  A response is a JavaScript value: an object, a string or    *)
(* undefined.                                                              *)
(***************************************************************************)
Obj(v) == [ kind |-> "object", value |-> v ]

Str(v) == [ kind |-> "string", value |-> v ]

Undefined == [ kind |-> "undefined", value |-> "undefined" ]

NoRun == [ ran |-> FALSE, fixes |-> <<>> ]

\* what the engine was run on (the arguments of lintJob), what it showed, and
\* the reports handed to outputFixes
RunOf(job, options, engine) ==
    [ ran |-> TRUE, options |-> options, contents |-> job.contents,
      filePath |-> job.filePath, engine |-> engine, fixes |-> <<>> ]

(***************************************************************************)
(* The branches of the dispatch by type (src/worker.js, lines 62 to 79).   *)
(* Each yields the response, the state it leaves, its calls and the error  *)
(* thrown.                                                                 *)
(***************************************************************************)
\* (variant) the flag is read as it was before lintJob ran
lintBranchStaleFlag(job, rm, sr, engine, options) ==
    LET lj == lintJob(rm, sr, engine)
        messages == IF Len(lj.results) > 0 THEN lj.results[1].messages ELSE <<>>
    IN  [ thrown |-> lj.thrown,
          response |->
              IF sr
              THEN Obj([ messages |-> messages,
                         updatedRules |-> MapEntries(lj.rulesMetadata, 1) ])
              ELSE Obj([ messages |-> messages ]),
          rulesMetadata |-> lj.rulesMetadata, sendRules |-> lj.sendRules,
          calls |-> lj.calls,
          run |-> RunOf(job, options, engine) ]

\* (variant) the messages are those of the last result entry
lintBranchLastEntry(job, rm, sr, engine, options) ==
    LET lj == lintJob(rm, sr, engine)
        messages == IF Len(lj.results) > 0
                    THEN lj.results[Len(lj.results)].messages ELSE <<>>
    IN  [ thrown |-> lj.thrown,
          response |->
              IF lj.sendRules
              THEN Obj([ messages |-> messages,
                         updatedRules |-> MapEntries(lj.rulesMetadata, 1) ])
              ELSE Obj([ messages |-> messages ]),
          rulesMetadata |-> lj.rulesMetadata, sendRules |-> lj.sendRules,
          calls |-> lj.calls,
          run |-> RunOf(job, options, engine) ]

lintBranch(job, rm, sr, engine, options) ==
    LET lj == lintJob(rm, sr, engine)
        messages == IF Len(lj.results) > 0 THEN lj.results[1].messages ELSE <<>>
    IN  [ thrown |-> lj.thrown,
          response |->
              IF lj.sendRules
              THEN Obj([ messages |-> messages,
                         updatedRules |-> MapEntries(lj.rulesMetadata, 1) ])
              ELSE Obj([ messages |-> messages ]),
          rulesMetadata |-> lj.rulesMetadata, sendRules |-> lj.sendRules,
          calls |-> lj.calls,
          run |-> RunOf(job, options, engine) ]

\* (variant) the fix branch answers with the status wrapped as a lint response
fixBranchAsMessages(job, rm, sr, engine, options) ==
    LET fj == fixJob(rm, sr, engine)
    IN  [ thrown |-> fj.thrown, response |-> Obj([ messages |-> <<fj.status>> ]),
          rulesMetadata |-> fj.rulesMetadata, sendRules |-> fj.sendRules,
          calls |-> fj.calls,
          run |-> [ RunOf(job, options, engine) EXCEPT !.fixes = fj.fixes ] ]

fixBranch(job, rm, sr, engine, options) ==
    LET fj == fixJob(rm, sr, engine)
    IN  [ thrown |-> fj.thrown, response |-> Str(fj.status),
          rulesMetadata |-> fj.rulesMetadata, sendRules |-> fj.sendRules,
          calls |-> fj.calls,
          run |-> [ RunOf(job, options, engine) EXCEPT !.fixes = fj.fixes ] ]

\* (variant) the file's directory is passed where the modules directory belongs
debugBranchFileDir(job, rm, sr, engine, options) ==
    LET fileDir == Dirname(job.filePath)
        dir == findESLintDirectory(fileDir, job.config, job.projectPath)
    IN  [ thrown |-> IF IsError(dir) THEN dir.type ELSE "none",
          response |-> Obj(dir),
          rulesMetadata |-> rm, sendRules |-> sr,
          calls |-> <<"findCached", "findESLintDirectory">>,
          run |-> NoRun ]

debugBranch(job, rm, sr, engine, options) ==
    LET fileDir == Dirname(job.filePath)
        modulesDir == Dirname(findCached(fileDir, EslintName))
        dir == findESLintDirectory(modulesDir, job.config, job.projectPath)
    IN  [ thrown |-> IF IsError(dir) THEN dir.type ELSE "none",
          response |-> Obj(dir),
          rulesMetadata |-> rm, sendRules |-> sr,
          calls |-> <<"findCached", "findESLintDirectory">>,
          run |-> NoRun ]

otherBranch(job, rm, sr, engine, options) ==
    [ thrown |-> "none", response |-> Undefined,
      rulesMetadata |-> rm, sendRules |-> sr,
      calls |-> <<>>, run |-> NoRun ]

Dispatch(job, rm, sr, engine, options) ==
    IF job.type = "lint" THEN lintBranch(job, rm, sr, engine, options)
    ELSE IF job.type = "fix" THEN fixBranch(job, rm, sr, engine, options)
    ELSE IF job.type = "debug" THEN debugBranch(job, rm, sr, engine, options)
    ELSE otherBranch(job, rm, sr, engine, options)

(***************************************************************************)
(* The message handler (src/worker.js, lines 40 to 81) as a function of    *)
(* the job, the state it finds and the engine's behaviour: the state it    *)
(* leaves, what it emitted, the calls it made, the error that left it.     *)
(***************************************************************************)
\* (variant) a configuration at the home root counts as a project configuration
NoProjectConfigNullOnly(configPath) == configPath = Null

\* whether the file has no project configuration
NoProjectConfig(configPath) == configPath = Null \/ isConfigAtHomeRoot(configPath)

\* (variant) the lookup cache is cleared after the engine was resolved
HandlerHeadClearLate(config) ==
    <<"getESLintInstance">>
      \o (IF config.disableFSCache THEN <<"FindCache.clear">> ELSE <<>>)

\* the calls up to the engine resolution: the cache is cleared when the
\* configuration asks for it, then the engine is resolved
HandlerHead(config) ==
    (IF config.disableFSCache THEN <<"FindCache.clear">> ELSE <<>>)
      \o <<"getESLintInstance">>

Handler(job, rm, sr, engine) ==
    LET config == job.config
        fileDir == Dirname(job.filePath)
        eslint == getESLintInstance(fileDir, config, job.projectPath)
        configPath == getConfigPath(fileDir)
        head == HandlerHead(config)
    IN  IF IsError(eslint)
        THEN [ rulesMetadata |-> rm, sendRules |-> sr,
               emitted |-> <<>>, calls |-> head, thrown |-> eslint.type,
               run |-> NoRun ]
        ELSE IF NoProjectConfig(configPath) /\ config.disableWhenNoEslintConfig
        THEN [ rulesMetadata |-> rm, sendRules |-> sr,
               emitted |-> << <<job.emitKey, Obj([ messages |-> <<>> ])>> >>,
               calls |-> head \o <<"getConfigPath", "emit">>, thrown |-> "none",
               run |-> NoRun ]
        ELSE LET relativeFilePath ==
                     getRelativePath(fileDir, job.filePath, config, job.projectPath)
                 cliEngineOptions ==
                     getCLIEngineOptions(job.type, config, job.rules,
                                         relativeFilePath, fileDir, configPath)
                 d == Dispatch(job, rm, sr, engine, cliEngineOptions)
                 pre == head \o <<"getConfigPath", "getRelativePath",
                                  "getCLIEngineOptions">> \o d.calls
             IN  IF d.thrown # "none"
                 THEN [ rulesMetadata |-> d.rulesMetadata, sendRules |-> d.sendRules,
                        emitted |-> <<>>,
                        calls |-> pre, thrown |-> d.thrown, run |-> d.run ]
                 ELSE [ rulesMetadata |-> d.rulesMetadata, sendRules |-> d.sendRules,
                        emitted |-> << <<job.emitKey, d.response>> >>,
                        calls |-> Append(pre, "emit"), thrown |-> "none",
                        run |-> d.run ]

(***************************************************************************)
(* The job messages the host sends.  The host names the project that owns  *)
(* the file (null for a file outside every project).                       *)
(***************************************************************************)
JobTypes == { "lint", "fix", "debug", "other" }

\* correlation tokens: two tell a request's own key from another's
EmitKeys == { "job:1", "job:2" }

\* the resolution policies of a configuration
Policies ==
    { [ useGlobalEslint |-> FALSE, globalNodePath |-> Null,
        advancedLocalNodeModules |-> Null ],
      [ useGlobalEslint |-> TRUE, globalNodePath |-> GlobalPrefix,
        advancedLocalNodeModules |-> Null ],
      [ useGlobalEslint |-> TRUE, globalNodePath |-> EmptyPrefix,
        advancedLocalNodeModules |-> Null ],
      [ useGlobalEslint |-> FALSE, globalNodePath |-> Null,
        advancedLocalNodeModules |-> AdvancedAbs ] }

Configs ==
    { [ useGlobalEslint |-> p.useGlobalEslint,
        globalNodePath |-> p.globalNodePath,
        advancedLocalNodeModules |-> p.advancedLocalNodeModules,
        disableFSCache |-> c,
        disableEslintIgnore |-> FALSE,
        disableWhenNoEslintConfig |-> w ] :
        p \in Policies, c \in BOOLEAN, w \in BOOLEAN }

Jobs ==
    { [ contents |-> "var a", type |-> t, config |-> c, filePath |-> f,
        projectPath |-> ProjectPathOf(f), rules |-> Null, emitKey |-> k ] :
        t \in JobTypes, c \in Configs, f \in FilePaths, k \in EmitKeys }

NoJob == [ type |-> "none" ]

(***************************************************************************)
(* The worker process.                                                     *)
(***************************************************************************)
Init ==
    /\ rulesMetadata = EmptyRules
    /\ sendRules = FALSE
    /\ platform = "linux"
    /\ phase = "idle"
    /\ inbox = NoJob
    /\ emitted = <<>>
    /\ calls = <<>>
    /\ thrown = "none"
    /\ run = NoRun
    /\ lastRules = EmptyRules
    /\ delivered = EmptyRules
    /\ probe = NoJob

\* the host sends a job message to the idle worker
Send(job) ==
    /\ phase = "idle"
    /\ phase' = "pending"
    /\ inbox' = job
    /\ UNCHANGED << rulesMetadata, sendRules, platform, emitted, calls,
                    thrown, run, lastRules, delivered, probe >>

\* whether the handler gets as far as running the engine for a job
Executes(job) ==
    LET fileDir == Dirname(job.filePath)
    IN  /\ job.type \in { "lint", "fix" }
        /\ ~IsError(getESLintInstance(fileDir, job.config, job.projectPath))
        /\ ~(/\ NoProjectConfig(getConfigPath(fileDir))
             /\ job.config.disableWhenNoEslintConfig)

\* the engine behaviours that can show while a job is served
EngineRunsFor(job) ==
    IF ~Executes(job)
    THEN { [ fault |-> "none", results |-> <<>>, rules |-> EmptyRules ] }
    ELSE IF job.type = "lint" THEN { e \in EngineRuns : e.fault # "outputFixes" }
    ELSE EngineRuns

\* the rule set an updatedRules array of [rule, props] pairs describes
RulesOf(entries) ==
    [ r \in { entries[i][1] : i \in 1 .. Len(entries) } |->
        entries[CHOOSE i \in 1 .. Len(entries) : entries[i][1] = r][2] ]

\* the rule set the host holds once it has read what was emitted
DeliveredAfter(out, before) ==
    IF /\ Len(out) > 0
       /\ out[Len(out)][2].kind = "object"
       /\ "updatedRules" \in DOMAIN out[Len(out)][2].value
    THEN RulesOf(out[Len(out)][2].value.updatedRules)
    ELSE before

\* process.on('message'): the handler runs to its end on the message
OnMessage ==
    /\ phase = "pending"
    /\ \E engine \in EngineRunsFor(inbox) :
       \E r \in { Handler(inbox, rulesMetadata, sendRules, engine) } :
             /\ rulesMetadata' = r.rulesMetadata
             /\ sendRules' = r.sendRules
             /\ emitted' = r.emitted
             /\ calls' = r.calls
             /\ thrown' = r.thrown
             /\ run' = r.run
             /\ lastRules' = IF r.run.ran /\ engine.fault # "executeOnText"
                             THEN engine.rules ELSE lastRules
             /\ delivered' = DeliveredAfter(r.emitted, delivered)
    /\ phase' = "done"
    /\ UNCHANGED << platform, inbox, probe >>

\* the host takes what was emitted; the worker waits for the next message
Collect ==
    /\ phase = "done"
    /\ phase' = "idle"
    /\ inbox' = NoJob
    /\ emitted' = <<>>
    /\ calls' = <<>>
    /\ thrown' = "none"
    /\ run' = NoRun
    /\ UNCHANGED << rulesMetadata, sendRules, platform, lastRules, delivered,
                    probe >>

Next ==
    \/ \E job \in Jobs : Send(job)
    \/ OnMessage
    \/ Collect

Spec == Init /\ [][Next]_vars

(***************************************************************************)
(* Engine resolution on its own: every policy against the file system.     *)
(***************************************************************************)
ResolveConfigs ==
    { [ useGlobalEslint |-> g, globalNodePath |-> n,
        advancedLocalNodeModules |-> a,
        disableFSCache |-> FALSE, disableEslintIgnore |-> FALSE,
        disableWhenNoEslintConfig |-> FALSE ] :
        g \in BOOLEAN,
        n \in { Null, GlobalPrefix, GlobalPrefixWin, EmptyPrefix },
        a \in { Null, AdvancedAbs, AdvancedRel, AdvancedMissing } }

FileDirs == { Dirname(f) : f \in FilePaths }

InitResolve ==
    /\ rulesMetadata = EmptyRules
    /\ sendRules = FALSE
    /\ platform \in Platforms
    /\ phase = "idle"
    /\ inbox = NoJob
    /\ emitted = <<>>
    /\ calls = <<>>
    /\ thrown = "none"
    /\ run = NoRun
    /\ lastRules = EmptyRules
    /\ delivered = EmptyRules
    /\ probe = NoJob

\* Helpers.getESLintInstance(fileDir, config, projectPath), applied once
Resolve(fileDir, config, projectPath) ==
    /\ probe' = [ type |-> "resolve", fileDir |-> fileDir, config |-> config,
                  projectPath |-> projectPath,
                  result |-> getESLintInstance(fileDir, config, projectPath) ]
    /\ UNCHANGED << rulesMetadata, sendRules, platform, phase, inbox,
                    emitted, calls, thrown, run, lastRules, delivered >>

\* the configurations and project paths a relative path is computed under
RelativeConfigs ==
    { [ useGlobalEslint |-> FALSE, globalNodePath |-> Null,
        advancedLocalNodeModules |-> Null,
        disableFSCache |-> FALSE, disableEslintIgnore |-> i,
        disableWhenNoEslintConfig |-> FALSE ] : i \in BOOLEAN }

RelativeProjectPaths == { Null, ProjectDir, HomeDir, <<Root, "tmp">> }

\* Helpers.getRelativePath(fileDir, filePath, config, projectPath), applied once
Normalize(filePath, config, projectPath) ==
    /\ probe' = [ type |-> "relative", fileDir |-> Dirname(filePath),
                  filePath |-> filePath, config |-> config,
                  projectPath |-> projectPath,
                  result |-> getRelativePath(Dirname(filePath), filePath,
                                             config, projectPath) ]
    /\ UNCHANGED << rulesMetadata, sendRules, platform, phase, inbox,
                    emitted, calls, thrown, run, lastRules, delivered >>

NextResolve ==
    \/ \E fileDir \in FileDirs, config \in ResolveConfigs,
          projectPath \in ProjectPaths :
          Resolve(fileDir, config, projectPath)
    \/ \E filePath \in FilePaths, config \in RelativeConfigs,
          projectPath \in RelativeProjectPaths :
          Normalize(filePath, config, projectPath)

SpecResolve == InitResolve /\ [][NextResolve]_vars

(***************************************************************************)
(* What the claims speak of.                                               *)
(***************************************************************************)
\* the handler has run on the job in inbox
Done == phase = "done"

\* the step in which the handler runs
Served == phase = "pending" /\ phase' = "done"

\* the job's file has no project configuration and the policy says to skip
SkipCase(job) ==
    /\ job.config.disableWhenNoEslintConfig
    /\ \/ getConfigPath(Dirname(job.filePath)) = Null
       \/ Dirname(getConfigPath(Dirname(job.filePath))) = HomeDir

\* the calls that construct or execute the engine, or write its fixes
EngineCalls == { "new CLIEngine", "executeOnText", "outputFixes" }

NoEngineCall(cs) == \A i \in 1 .. Len(cs) : cs[i] \notin EngineCalls

EmptyMessages == Obj([ messages |-> <<>> ])

HasUpdatedRules(response) ==
    response.kind = "object" /\ "updatedRules" \in DOMAIN response.value

\* the engine run of the served job got past executeOnText
RunCompleted(r) == r.ran /\ r.engine.fault # "executeOnText"

\* the engine the policy selects does not exist
EngineMissing(job) ==
    IsError(getESLintInstance(Dirname(job.filePath), job.config, job.projectPath))

\* the descriptor found by resolving the engine directory again
Reresolved(job) ==
    findESLintDirectory(Dirname(Find(Dirname(job.filePath), EslintName)),
                        job.config, job.projectPath)

LintShape(response) ==
    /\ response.kind = "object"
    /\ "messages" \in DOMAIN response.value
    /\ DOMAIN response.value \subseteq { "messages", "updatedRules" }

FixShape(response) ==
    response.kind = "string" /\ response.value \in { FixComplete, FixRemain }

DebugShape(response) ==
    /\ response.kind = "object"
    /\ DOMAIN response.value = { "path", "type" }
    /\ response.value.type \in DescriptorTypes

ShapeFits(type, response) ==
    CASE type = "lint" -> LintShape(response)
      [] type = "fix" -> FixShape(response)
      [] type = "debug" -> DebugShape(response)
      [] OTHER -> TRUE

\* the [rule, props] pairs of an array of pairs, and of a rule set
PairsOf(entries) == { entries[i] : i \in 1 .. Len(entries) }

PairsIn(rules) == { <<r, rules[r]>> : r \in DOMAIN rules }

(***************************************************************************)
(* The claims.                                                             *)
(***************************************************************************)

\* C1: for every job message the handler has run on, exactly one response
\* was emitted, and it is keyed by that message's emitKey.
C1_ExactlyOneResponse ==
    Done => Len(emitted) = 1 /\ emitted[1][1] = inbox.emitKey

\* C2: serving a request with disableWhenNoEslintConfig whose file has no
\* project configuration (none, or one at the home root) emits nothing but
\* {messages: []} under the request's key (exactly once when the engine
\* resolved), makes no engine call, and leaves the rule snapshot as it was.
C2_SkipRespondsEmpty ==
    [][ Served /\ SkipCase(inbox) =>
          /\ \A i \in 1 .. Len(emitted') :
                 emitted'[i] = <<inbox.emitKey, EmptyMessages>>
          /\ thrown' = "none" => Len(emitted') = 1
          /\ ~EngineMissing(inbox) => thrown' = "none"
          /\ NoEngineCall(calls')
          /\ run' = NoRun
          /\ rulesMetadata' = rulesMetadata ]_vars

C2_Witness ==
    /\ Done
    /\ SkipCase(inbox)
    /\ inbox.type = "fix"
    /\ getConfigPath(Dirname(inbox.filePath)) # Null
    /\ emitted = << <<inbox.emitKey, EmptyMessages>> >>
    /\ rulesMetadata # EmptyRules

\* C3 (as stated): the shape of every response is fixed by the request's type
\* alone, whatever the configuration.
C3_ShapeByTypeAlone ==
    Done => \A i \in 1 .. Len(emitted) : ShapeFits(inbox.type, emitted[i][2])

\* C3 (amended): the shape of every response to a request that is not skipped
\* is fixed by the request's type; a skipped request of any type is answered
\* with {messages: []}.
C3_ShapeByTypeUnlessSkipped ==
    Done =>
      \A i \in 1 .. Len(emitted) :
          IF SkipCase(inbox)
          THEN emitted[i][2] = EmptyMessages
          ELSE ShapeFits(inbox.type, emitted[i][2])

C3_Witness ==
    /\ Done
    /\ inbox.type = "fix"
    /\ ~SkipCase(inbox)
    /\ Len(emitted) = 1
    /\ emitted[1][2] = Str(FixRemain)

C5_DiffAgainstPrecedingJob ==
    [][ Served /\ RunCompleted(run') =>
          sendRules' = (run'.engine.rules # lastRules) ]_vars

C5_Witness ==
    /\ Done
    /\ RunCompleted(run)
    /\ run.engine.rules # EmptyRules
    /\ ~sendRules

\* C6: the snapshot is the rule set of the latest job that completed its
\* engine run (empty before the first): no other rule stays in it.
C6_SnapshotIsLatestRuleSet ==
    /\ rulesMetadata = lastRules
    /\ Done /\ RunCompleted(run) => rulesMetadata = run.engine.rules

C6_Witness ==
    /\ Done
    /\ RunCompleted(run)
    /\ sendRules
    /\ Cardinality(DOMAIN run.engine.rules) = 1
    /\ rulesMetadata = run.engine.rules

\* C7: the status of an executed fix job is the success string exactly when
\* the report has no result entry or its first entry has no message, and the
\* partial-success string exactly when its first entry has a message.
C7_FixStatus ==
    Done /\ inbox.type = "fix" /\ run.ran /\ thrown = "none" =>
      /\ Len(emitted) = 1
      /\ emitted[1][2].kind = "string"
      /\ emitted[1][2].value = FixComplete
           <=> \/ Len(run.engine.results) = 0
               \/ Len(run.engine.results[1].messages) = 0
      /\ emitted[1][2].value = FixRemain
           <=> /\ Len(run.engine.results) > 0
               /\ Len(run.engine.results[1].messages) >= 1

C7_Witness ==
    /\ Done
    /\ inbox.type = "fix"
    /\ run.ran
    /\ Len(run.engine.results) = 2
    /\ Len(run.engine.results[1].messages) = 0
    /\ Len(run.engine.results[2].messages) = 1
    /\ emitted = << <<inbox.emitKey, Str(FixComplete)>> >>

\* C8 (as stated): serving a debug request makes no engine call and leaves the
\* snapshot as it was, and every response to it is the descriptor found by
\* resolving the engine directory again.
C8_DebugRespondsDescriptor ==
    [][ Served /\ inbox.type = "debug" =>
          /\ NoEngineCall(calls')
          /\ run' = NoRun
          /\ rulesMetadata' = rulesMetadata
          /\ \A i \in 1 .. Len(emitted') :
                 emitted'[i] = <<inbox.emitKey, Obj(Reresolved(inbox))>> ]_vars

\* C8 (amended): serving a debug request makes no engine call and leaves the
\* snapshot as it was; every response to it is the descriptor found by
\* resolving the engine directory again, unless the request is skipped, when
\* it is {messages: []}.
C8_DebugRespondsDescriptorUnlessSkipped ==
    [][ Served /\ inbox.type = "debug" =>
          /\ NoEngineCall(calls')
          /\ run' = NoRun
          /\ rulesMetadata' = rulesMetadata
          /\ \A i \in 1 .. Len(emitted') :
                 emitted'[i] = <<inbox.emitKey,
                                 IF SkipCase(inbox) THEN EmptyMessages
                                 ELSE Obj(Reresolved(inbox))>>
          /\ ~EngineMissing(inbox) => Len(emitted') = 1 ]_vars

C8_Witness ==
    /\ Done
    /\ inbox.type = "debug"
    /\ ~SkipCase(inbox)
    /\ rulesMetadata # EmptyRules
    /\ Len(emitted) = 1
    /\ emitted[1][2].value.type = "local project"

\* C9: when the engine is not found, or executeOnText or outputFixes faults,
\* the error leaves the handler and nothing is emitted.
C9_FailurePropagates ==
    /\ Done /\ ( \/ EngineMissing(inbox)
                 \/ run.ran /\ run.engine.fault = "executeOnText"
                 \/ run.ran /\ inbox.type = "fix" /\ run.engine.fault = "outputFixes" )
         => thrown # "none" /\ emitted = <<>>
    /\ Done /\ thrown # "none" => emitted = <<>>

C9_Witness ==
    /\ Done
    /\ inbox.type = "fix"
    /\ run.ran
    /\ run.engine.fault = "outputFixes"
    /\ thrown = "EngineExecutionError"
    /\ emitted = <<>>

\* C10: when advancedLocalNodeModules names (absolutely, or relative to
\* projectPath) a directory holding an engine, resolution yields type
\* "advanced specified" and the path of that engine, whatever useGlobalEslint
\* is and whatever local or global engine exists.
C10_AdvancedWins ==
    probe.type = "resolve" /\ probe.config.advancedLocalNodeModules # Null =>
      LET adv == probe.config.advancedLocalNodeModules
          location == IF IsAbsolute(adv) THEN adv ELSE probe.projectPath \o adv
      IN  location \o <<"eslint">> \in Disk =>
            probe.result = [ path |-> location \o <<"eslint">>,
                             type |-> "advanced specified" ]

C10_Witness ==
    /\ probe.type = "resolve"
    /\ probe.config.advancedLocalNodeModules = AdvancedRel
    /\ probe.config.useGlobalEslint
    /\ probe.config.globalNodePath = GlobalPrefix
    /\ platform = "linux"
    /\ probe.fileDir = Dirname(<<Root, "home", "u", "proj", "src", "a.js">>)
    /\ probe.result.type = "advanced specified"

\* the engine directory below the probed global prefix, by platform
ProbedGlobalDir ==
    probe.config.globalNodePath
      \o (IF platform = "win32" THEN <<"node_modules", "eslint">>
          ELSE <<"lib", "node_modules", "eslint">>)

\* the local engine found upward from the probed start directory, or null
ProbedLocalDir == Find(probe.fileDir, EslintName)

\* the directory the probed advancedLocalNodeModules names
ProbedAdvancedDir ==
    (IF IsAbsolute(probe.config.advancedLocalNodeModules) THEN <<>>
     ELSE probe.projectPath) \o probe.config.advancedLocalNodeModules
      \o <<"eslint">>

\* C11: with advancedLocalNodeModules unset, useGlobalEslint with an engine
\* under globalNodePath yields type "global" at the platform's location below
\* globalNodePath even when a local engine exists; without useGlobalEslint the
\* result is never "global", and is "local project" at the local engine when
\* one exists.
C11_GlobalOnlyWhenAsked ==
    probe.type = "resolve" /\ probe.config.advancedLocalNodeModules = Null =>
      /\ probe.config.useGlobalEslint /\ ProbedGlobalDir \in Disk =>
            probe.result = [ path |-> ProbedGlobalDir, type |-> "global" ]
      /\ ~probe.config.useGlobalEslint =>
            /\ probe.result.type # "global"
            /\ ProbedLocalDir # Null =>
                  probe.result = [ path |-> ProbedLocalDir, type |-> "local project" ]

C11_Witness ==
    /\ probe.type = "resolve"
    /\ probe.config.advancedLocalNodeModules = Null
    /\ probe.config.useGlobalEslint
    /\ probe.config.globalNodePath = GlobalPrefixWin
    /\ platform = "win32"
    /\ ProbedLocalDir # Null
    /\ probe.result.type = "global"

C13_FailIfAbsent ==
    probe.type = "resolve" =>
      /\ probe.config.advancedLocalNodeModules # Null
           /\ ProbedAdvancedDir \notin Disk
           => IsError(probe.result)
      /\ probe.config.useGlobalEslint /\ ProbedGlobalDir \notin Disk
           => IsError(probe.result)

\* C13 (amended): when advancedLocalNodeModules is set without an engine under
\* it, or advancedLocalNodeModules is unset and useGlobalEslint is true without
\* an engine under globalNodePath, obtaining the engine fails, whatever local
\* or bundled engine exists.
C13_FailIfSelectedAbsent ==
    probe.type = "resolve" =>
      /\ probe.config.advancedLocalNodeModules # Null
           /\ ProbedAdvancedDir \notin Disk
           => IsError(probe.result)
      /\ probe.config.advancedLocalNodeModules = Null
           /\ probe.config.useGlobalEslint /\ ProbedGlobalDir \notin Disk
           => IsError(probe.result)

C13_Witness ==
    /\ probe.type = "resolve"
    /\ probe.config.advancedLocalNodeModules = AdvancedMissing
    /\ ~probe.config.useGlobalEslint
    /\ ProbedLocalDir # Null
    /\ IsError(probe.result)

\* the directory of the ignore file found upward of the probed file, and the
\* probed file's path below a directory
ProbedIgnoreFile == Find(probe.fileDir, IgnoreName)

Below(dir, filePath) == SubSeq(filePath, Len(dir) + 1, Len(filePath))

LastSegment(filePath) == << filePath[Len(filePath)] >>

\* what the project path and the base name give when no ignore file anchors
ProjectOrBaseName ==
    IF probe.projectPath # Null /\ IsAncestor(probe.projectPath, probe.filePath)
    THEN Below(probe.projectPath, probe.filePath)
    ELSE LastSegment(probe.filePath)

C15_ProjectOrBaseName ==
    /\ probe.type = "relative"
    /\ probe.config.disableEslintIgnore \/ ProbedIgnoreFile = Null
    => /\ probe.result = ProjectOrBaseName
       /\ \A i \in 1 .. Len(probe.result) : probe.result[i] # ".."

C15_Witness ==
    /\ probe.type = "relative"
    /\ ProbedIgnoreFile = Null
    /\ probe.projectPath = ProjectDir
    /\ ~IsAncestor(probe.projectPath, probe.filePath)
    /\ probe.result = <<"c.js">>

\* how often a call was made, and where in the order of calls
Count(name, cs) == Cardinality({ i \in 1 .. Len(cs) : cs[i] = name })

Places(name, cs) == { i \in 1 .. Len(cs) : cs[i] = name }

Before(a, b, cs) == \A i \in Places(a, cs), j \in Places(b, cs) : i < j

\* C16: whenever a lint response has been emitted, the rule set the host last
\* received through updatedRules is the worker's snapshot.
C16_DeliveredIsSnapshot ==
    Done /\ inbox.type = "lint" /\ Len(emitted) > 0 => delivered = rulesMetadata

\* C17 (as stated): outputFixes is called while a request is served exactly
\* when the request has type fix and is not skipped.
C17_WritesIffFix ==
    Done => ( Count("outputFixes", calls) > 0
                <=> inbox.type = "fix" /\ ~SkipCase(inbox) )

\* C17 (amended): outputFixes is called exactly when the request has type fix,
\* is not skipped, its engine resolved and its executeOnText returned; it is
\* then called once, on the report of that request's executeOnText, after the
\* snapshot update and before the response is emitted.  Lint, debug and
\* skipped requests never call it.
C17_WritesIffFixRan ==
    Done =>
      /\ Count("outputFixes", calls) =
            IF /\ inbox.type = "fix"
               /\ ~SkipCase(inbox)
               /\ ~EngineMissing(inbox)
               /\ RunCompleted(run)
            THEN 1 ELSE 0
      /\ Len(run.fixes) = Count("outputFixes", calls)
      /\ \A i \in 1 .. Len(run.fixes) : run.fixes[i] = run.engine.results
      /\ Before("executeOnText", "outputFixes", calls)
      /\ Before("rulesMetadata.set", "outputFixes", calls)
      /\ Before("outputFixes", "emit", calls)
      /\ inbox.type # "fix" \/ SkipCase(inbox) => Count("outputFixes", calls) = 0

C17_Witness ==
    /\ Done
    /\ inbox.type = "fix"
    /\ Count("outputFixes", calls) = 1
    /\ Count("rulesMetadata.set", calls) = 1
    /\ Count("emit", calls) = 1
    /\ Len(run.engine.results) = 2
    /\ run.fixes = << run.engine.results >>

\* C18: the lookup cache is cleared exactly when disableFSCache is set, and
\* then before every other call of the request; the engine is resolved before
\* the configuration is looked up and the skip decision taken; no engine call
\* precedes the skip decision; the response comes last.
C18_StepOrder ==
    Done =>
      /\ Count("FindCache.clear", calls) = IF inbox.config.disableFSCache THEN 1 ELSE 0
      /\ Places("FindCache.clear", calls) \subseteq { 1 }
      /\ Count("getESLintInstance", calls) = 1
      /\ Before("getESLintInstance", "getConfigPath", calls)
      /\ \A c \in EngineCalls :
            /\ Before("getConfigPath", c, calls)
            /\ Count(c, calls) > 0 => Count("getConfigPath", calls) = 1
      /\ Count("emit", calls) > 0 =>
            /\ Places("emit", calls) = { Len(calls) }
            /\ Count("getConfigPath", calls) = 1
      /\ SkipCase(inbox) /\ ~EngineMissing(inbox) =>
            calls = (IF inbox.config.disableFSCache THEN <<"FindCache.clear">> ELSE <<>>)
                      \o <<"getESLintInstance", "getConfigPath", "emit">>

C18_Witness ==
    /\ Done
    /\ inbox.config.disableFSCache
    /\ inbox.type = "fix"
    /\ calls[1] = "FindCache.clear"
    /\ calls[2] = "getESLintInstance"
    /\ calls[3] = "getConfigPath"
    /\ Count("outputFixes", calls) = 1
    /\ calls[Len(calls)] = "emit"

\* C19: an executed lint request runs the engine once, on the request's
\* contents and filePath; the messages of its response are those of the first
\* result entry of that run's report, or none when the report has no entry,
\* whatever the snapshot and the earlier requests were.
C19_LintMessages ==
    Done /\ inbox.type = "lint" /\ run.ran =>
      /\ Count("new CLIEngine", calls) = 1
      /\ Count("executeOnText", calls) = 1
      /\ run.contents = inbox.contents
      /\ run.filePath = inbox.filePath
      /\ thrown = "none" =>
            /\ Len(emitted) = 1
            /\ emitted[1][2].kind = "object"
            /\ emitted[1][2].value.messages =
                  IF Len(run.engine.results) = 0 THEN <<>>
                  ELSE run.engine.results[1].messages

C19_Witness ==
    /\ Done
    /\ inbox.type = "lint"
    /\ run.ran
    /\ rulesMetadata # EmptyRules
    /\ ~sendRules
    /\ Len(run.engine.results) = 2
    /\ Len(run.engine.results[1].messages) = 1
    /\ Len(run.engine.results[2].messages) = 0
    /\ Len(emitted) = 1
    /\ Len(emitted[1][2].value.messages) = 1

\* C20: a request that fails (engine not found, executeOnText or outputFixes
\* faulting) leaves the rule snapshot as it found it.
C20_FailureLeavesSnapshot ==
    [][ Served /\ thrown' # "none" => rulesMetadata' = rulesMetadata ]_vars

====
